---- MODULE Spec2Model ----
(***************************************************************************)
(* The JOS kernel monitor (kern/monitor.c): the address parser             *)
(* hexaddr2decaddr, the translator showmappings / mon_showmappings, the    *)
(* stack unwinder mon_backtrace, the tokenizer and dispatcher runcmd and   *)
(* the read-eval-print loop monitor.                                       *)
(*                                                                         *)
(* A 32-bit machine word is the record [hi |-> page, lo |-> offset] with   *)
(* value hi * PGSIZE + lo (20 + 12 bits), so that all arithmetic is exact  *)
(* modulo 2^32.  An int is represented by its two's complement bit         *)
(* pattern, which is what the conversion to uint32_t at monitor.c:141-142  *)
(* and at the call of showmappings (monitor.c:136) keeps.  A character is  *)
(* its (signed) char code, a C string the sequence of its characters       *)
(* before the terminating NUL.                                             *)
(***************************************************************************)
EXTENDS Integers, Sequences, FiniteSets, TLC

VARIABLES
    pc,        \* control position of the kernel monitor
    line,      \* the line readline returned, as it was before runcmd cut it up
    buf,       \* the command buffer, NUL-terminated, cut up in place by runcmd;
               \* NoBuf when readline returned NULL
    argc,      \* runcmd's argc
    argv,      \* runcmd's argv[0..argc-1], each the C string its pointer reads
    calls,     \* the handler invocations of the current runcmd
    out,       \* the console output of the current command, one record per report
    ret,       \* the value the last runcmd / handler returned
    val_ebp,   \* mon_backtrace's val_ebp
    low,       \* mon_showmappings' low
    high,      \* mon_showmappings' high
    ebp,       \* the frame-pointer register read_ebp() reads
    mem,       \* the readable stack memory, word address -> word
    pgdir,     \* kern_pgdir: mapped page number -> page-table entry
    hexaddr,   \* the string handed to hexaddr2decaddr
    result,    \* the int hexaddr2decaddr returned
    number,    \* {n} when hexaddr was formatted from the integer n, else {}
    tf         \* monitor's struct Trapframe *tf

vars == <<pc, line, buf, argc, argv, calls, out, ret, val_ebp, low, high,
          ebp, mem, pgdir, hexaddr, result, number, tf>>

\* what no operation of the monitor writes
env == <<ebp, mem, pgdir, tf>>
\* the address parser called on its own
parse == <<hexaddr, result, number>>

\* the null trapframe pointer
NULL == "NULL"
\* the null char pointer: a buffer holds at least its terminating NUL
NoBuf == <<>>

(***************************************************************************)
(* 32-bit words                                                            *)
(***************************************************************************)
PGSIZE == 4096
NPAGES == 2 ^ 20

W32(h, l) == [hi |-> h, lo |-> l]

Zero32 == W32(0, 0)

\* a + b modulo 2^32.  For int operands this is the sum wherever the sum is
\* representable, which it is in hexaddr2decaddr for up to 15 digits.
Add32(a, b) ==
    LET s == a.lo + b.lo
    IN  W32((a.hi + b.hi + (s \div PGSIZE)) % NPAGES, s % PGSIZE)

\* a - b modulo 2^32
Sub32(a, b) ==
    LET borrow == IF a.lo < b.lo THEN 1 ELSE 0
    IN  W32((a.hi - b.hi - borrow + 2 * NPAGES) % NPAGES,
            (a.lo - b.lo + PGSIZE) % PGSIZE)

\* unsigned a <= b
Leq32(a, b) == a.hi < b.hi \/ (a.hi = b.hi /\ a.lo <= b.lo)

\* the small non-negative int v as a word
Int32(v) == W32(v \div PGSIZE, v % PGSIZE)

\* (v << s) for 0 <= v < 16 and 0 <= s < 32, the bits shifted out dropped.
\* For v >= 8 and s = 28 the result has the sign bit set: gcc defines the
\* signed shift to give exactly this bit pattern.
Shl32(v, s) ==
    IF s < 12
    THEN Int32(v * (2 ^ s))
    ELSE W32((v * (2 ^ (s - 12))) % NPAGES, 0)

(***************************************************************************)
(* hexaddr2decaddr (monitor.c:90-115)                                      *)
(***************************************************************************)
\* mutant: the lowercase digits counted from 0
char2int_LowerFromZero(c) ==
    IF 48 <= c /\ c <= 57 THEN c - 48
    ELSE IF 65 <= c /\ c <= 70 THEN c - 55
    ELSE IF 97 <= c /\ c <= 102 THEN c - 97
    ELSE 0

\* monitor.c:90-99
char2int(c) ==
    IF 48 <= c /\ c <= 57 THEN c - 48
    ELSE IF 65 <= c /\ c <= 70 THEN c - 55
    ELSE IF 97 <= c /\ c <= 102 THEN c - 87
    ELSE 0

\* What tempret << n can be when n >= 32, which C leaves undefined: the x86
\* shift instruction uses the count modulo 32 ("mask"); the other outcome
\* shifts every bit out ("zero").
ShiftOutcomes == {"mask", "zero"}

\* monitor.c:111, tempret << ((len - i - 1) * 4)
ShiftDigit(v, n, wide) ==
    IF n < 32 THEN Shl32(v, n)
    ELSE IF wide = "mask" THEN Shl32(v, n % 32)
    ELSE Zero32

\* monitor.c:108-113, the loop from index i (1-based here) with result acc
RECURSIVE ParseFrom(_, _, _, _)
ParseFrom(newaddr, i, acc, wide) ==
    IF i > Len(newaddr) THEN acc
    ELSE ParseFrom(newaddr, i + 1,
                   Add32(acc, ShiftDigit(char2int(newaddr[i]),
                                         (Len(newaddr) - i) * 4, wide)),
                   wide)

\* monitor.c:101-115; hexaddr has at least two characters
hexaddr2decaddr(s, wide) ==
    ParseFrom(SubSeq(s, 3, Len(s)), 1, Zero32, wide)

(***************************************************************************)
(* showmappings and mon_showmappings (monitor.c:117-150)                   *)
(***************************************************************************)
\* inc/mmu.h PTE_ADDR(pte): the entry with its low 12 flag bits cleared
PTE_ADDR(pte) == W32(pte.hi, 0)

\* kern/pmap.c page_lookup(kern_pgdir, va, &pte_entry): whether the page of va
\* has a page-table entry, and the entry.  It reads the page table only.
page_lookup(pd, va) ==
    IF va.hi \in DOMAIN pd
    THEN [found |-> TRUE, pte |-> pd[va.hi]]
    ELSE [found |-> FALSE, pte |-> Zero32]

\* mutant: the entry reported with its flag bits
showmappings_Unmasked(pd, vaddr) ==
    LET r == page_lookup(pd, vaddr)
    IN  IF r.found
        THEN <<[msg |-> "va_pa", va |-> vaddr, pa |-> r.pte]>>
        ELSE <<[msg |-> "No physical page mapping", va |-> vaddr]>>

\* monitor.c:117-130: the lines showmappings(vaddr) prints.  The two cprintf
\* calls of the mapped case print one line, "va: ...    pa: ...\n".
showmappings(pd, vaddr) ==
    LET r == page_lookup(pd, vaddr)
    IN  IF r.found
        THEN <<[msg |-> "va_pa", va |-> vaddr, pa |-> PTE_ADDR(r.pte)]>>
        ELSE <<[msg |-> "No physical page mapping", va |-> vaddr]>>

\* What hexaddr2decaddr(tok) can return.  A token of fewer than two
\* characters makes hexaddr + 2 point past the token's terminator, at
\* whatever the buffer holds there: any word.
StaleWords == {Zero32, W32(1, 0), W32(NPAGES - 1, PGSIZE - 1)}

ParsedAddr(tok) ==
    IF Len(tok) >= 2
    THEN {hexaddr2decaddr(tok, w) : w \in ShiftOutcomes}
    ELSE StaleWords

(***************************************************************************)
(* The command table (monitor.c:28-33)                                     *)
(***************************************************************************)
Str_help == <<104, 101, 108, 112>>
Str_kerninfo == <<107, 101, 114, 110, 105, 110, 102, 111>>
Str_backtrace == <<98, 97, 99, 107, 116, 114, 97, 99, 101>>
Str_showmappings == <<115, 104, 111, 119, 109, 97, 112, 112, 105, 110, 103, 115>>

commands ==
    << [name |-> Str_help, desc |-> "Display this list of commands",
        func |-> "mon_help"],
       [name |-> Str_kerninfo, desc |-> "Display information about the kernel",
        func |-> "mon_kerninfo"],
       [name |-> Str_backtrace, desc |-> "Display information of the kernel stack",
        func |-> "mon_backtrace"],
       [name |-> Str_showmappings,
        desc |-> "Show physical address mappings corresponding to specific virtual addresses",
        func |-> "mon_showmappings"] >>

(***************************************************************************)
(* runcmd: the tokenizer (monitor.c:165-184)                               *)
(***************************************************************************)
\* mutant: the carriage return left out of the separators
WHITESPACE_NoCR == <<9, 10, 32>>

\* monitor.c:155, "\t\r\n "
WHITESPACE == <<9, 13, 10, 32>>
MAXARGS == 16

\* lib/string.c strchr(s, c) != NULL, for c other than NUL
strchr(s, c) == \E k \in 1..Len(s) : s[k] = c

\* monitor.c:170-171: overwrite the whitespace from position p on with NULs;
\* b is NUL-terminated.  Gives the buffer and the position reached.
RECURSIVE Gobble(_, _)
Gobble(b, p) ==
    IF b[p] # 0 /\ strchr(WHITESPACE, b[p])
    THEN Gobble([b EXCEPT ![p] = 0], p + 1)
    ELSE [buf |-> b, p |-> p]

\* monitor.c:181-182: scan past the argument that starts at p
RECURSIVE ScanArg(_, _)
ScanArg(b, p) ==
    IF b[p] # 0 /\ ~strchr(WHITESPACE, b[p])
    THEN ScanArg(b, p + 1)
    ELSE p

\* mutant: the sentinel slot given to an argument
TooMany_OffByOne(n) == n = MAXARGS

\* monitor.c:176, the test that rejects one more argument
TooMany(n) == n = MAXARGS - 1

\* monitor.c:168-183: the parse loop from position p with the argument
\* pointers ptrs found so far.  over: the loop returned at monitor.c:178.
RECURSIVE ParseLoop(_, _, _)
ParseLoop(b, p, ptrs) ==
    LET g == Gobble(b, p)
    IN  IF g.buf[g.p] = 0
        THEN [buf |-> g.buf, ptrs |-> ptrs, over |-> FALSE]
        ELSE IF TooMany(Len(ptrs))
        THEN [buf |-> g.buf, ptrs |-> ptrs, over |-> TRUE]
        ELSE ParseLoop(g.buf, ScanArg(g.buf, g.p), Append(ptrs, g.p))

\* the C string a pointer into b reads: the characters up to the next NUL
RECURSIVE CStr(_, _)
CStr(b, p) == IF b[p] = 0 THEN <<>> ELSE <<b[p]>> \o CStr(b, p + 1)

\* mutant: only as many characters compared as the second string has
strcmp0_Prefix(a, b) == Len(a) >= Len(b) /\ SubSeq(a, 1, Len(b)) = b

\* lib/string.c strcmp(a, b) == 0
strcmp0(a, b) == a = b

\* monitor.c:189-192: the index of the first command from i on whose name is
\* a0, or 0 when the loop runs off the table
RECURSIVE Lookup(_, _)
Lookup(a0, i) ==
    IF i > Len(commands) THEN 0
    ELSE IF strcmp0(a0, commands[i].name) THEN i
    ELSE Lookup(a0, i + 1)

(***************************************************************************)
(* Bounds of the model                                                     *)
(***************************************************************************)
MaxSpan == 2        \* sample address ranges span at most this many pages
MaxFrames == 3      \* frame slots of the sample stacks
MaxLineLen == 3     \* every line of at most this length over LineAlphabet
MaxTokens == 17     \* generated lines hold up to this many tokens
MaxCore == 2        \* free characters of a sample address string
MaxRemainder == 9   \* characters after the prefix of a sample address string

\* A loop that does not end is followed for this many reports.
OutCap == MaxFrames + MaxSpan + 3

(***************************************************************************)
(* monitor and runcmd (monitor.c:158-214)                                  *)
(***************************************************************************)
\* monitor.c:202-206
MonitorStart ==
    /\ pc = "monitor"
    /\ out' = << [msg |-> "Welcome to the JOS kernel monitor!"],
                 [msg |-> "Type 'help' for a list of commands."] >>
               \o (IF tf # NULL THEN <<[msg |-> "print_trapframe", tf |-> tf]>>
                   ELSE <<>>)
    /\ pc' = "readline"
    /\ UNCHANGED <<line, buf, argc, argv, calls, ret, val_ebp, low, high, env, parse>>

\* monitor.c:186-194 after the parse t: what runcmd does with the arguments
Dispatch(t, av) ==
    LET i == IF av = <<>> THEN 0 ELSE Lookup(av[1], 1)
    IN  IF t.over
        THEN /\ out' = <<[msg |-> "Too many arguments", max |-> MAXARGS]>>
             /\ calls' = <<>>
             /\ ret' = 0
             /\ pc' = "returned"
        ELSE IF Len(av) = 0
        THEN /\ out' = <<>>
             /\ calls' = <<>>
             /\ ret' = 0
             /\ pc' = "returned"
        ELSE IF i # 0
        THEN /\ out' = <<>>
             /\ calls' = <<[func |-> commands[i].func, argc |-> Len(av),
                            argv |-> av, tf |-> tf]>>
             /\ ret' = ret
             /\ pc' = commands[i].func
        ELSE /\ out' = <<[msg |-> "Unknown command", name |-> av[1]]>>
             /\ calls' = <<>>
             /\ ret' = 0
             /\ pc' = "returned"

\* monitor.c:158-195 up to the call of the handler
RunCmd ==
    /\ pc = "runcmd"
    /\ LET t == ParseLoop(buf, 1, <<>>)
           av == [k \in 1..Len(t.ptrs) |-> CStr(t.buf, t.ptrs[k])]
       IN  /\ buf' = t.buf
           /\ argc' = Len(t.ptrs)
           /\ argv' = av
           /\ Dispatch(t, av)
    /\ UNCHANGED <<line, val_ebp, low, high, env, parse>>

\* mutant: zero taken for the value that ends the loop
MonitorCheck_ZeroExits ==
    /\ pc = "returned"
    /\ pc' = IF ret <= 0 THEN "exit" ELSE "readline"
    /\ line' = <<>> /\ buf' = NoBuf /\ argc' = 0 /\ argv' = <<>> /\ calls' = <<>>
    /\ out' = <<>>
    /\ val_ebp' = Zero32 /\ low' = Zero32 /\ high' = Zero32
    /\ UNCHANGED <<ret, env, parse>>

\* monitor.c:211-212, the test of runcmd's return value.  runcmd and the
\* handler have returned: their locals and the line are dead.
MonitorCheck ==
    /\ pc = "returned"
    /\ pc' = IF ret < 0 THEN "exit" ELSE "readline"
    /\ line' = <<>> /\ buf' = NoBuf /\ argc' = 0 /\ argv' = <<>> /\ calls' = <<>>
    /\ out' = <<>>
    /\ val_ebp' = Zero32 /\ low' = Zero32 /\ high' = Zero32
    /\ UNCHANGED <<ret, env, parse>>

(***************************************************************************)
(* The handlers (monitor.c:37-150)                                         *)
(***************************************************************************)
\* monitor.c:37-45
MonHelp ==
    /\ pc = "mon_help"
    /\ out' = out \o [i \in 1..Len(commands) |->
                        [msg |-> "help", name |-> commands[i].name,
                         desc |-> commands[i].desc]]
    /\ ret' = 0
    /\ pc' = "returned"
    /\ UNCHANGED <<line, buf, argc, argv, calls, val_ebp, low, high, env, parse>>

\* monitor.c:47-61; the values of the linker symbols are not modelled
MonKerninfo ==
    /\ pc = "mon_kerninfo"
    /\ out' = out \o << [msg |-> "Special kernel symbols:"],
                         [msg |-> "_start"], [msg |-> "entry"], [msg |-> "etext"],
                         [msg |-> "edata"], [msg |-> "end"],
                         [msg |-> "Kernel executable memory footprint"] >>
    /\ ret' = 0
    /\ pc' = "returned"
    /\ UNCHANGED <<line, buf, argc, argv, calls, val_ebp, low, high, env, parse>>

\* kern/kdebug.c debuginfo_eip(addr, &info): never fails the caller; for an
\* address it does not know it leaves its best-effort fields.
debuginfo_eip(addr) ==
    [eip_file |-> "<unknown>", eip_line |-> 0, eip_fn_name |-> "<unknown>",
     eip_fn_namelen |-> 9, eip_fn_addr |-> addr]

\* monitor.c:67-68
MonBacktrace ==
    /\ pc = "mon_backtrace"
    /\ out' = Append(out, [msg |-> "Stack backtrace:"])
    /\ val_ebp' = ebp
    /\ pc' = "backtrace"
    /\ UNCHANGED <<line, buf, argc, argv, calls, ret, low, high, env, parse>>

\* mutant: a depth bound on the walk
WalkOn_Bounded(v) == v # Zero32 /\ Len(out) <= MaxFrames

\* monitor.c:70, the loop test
WalkOn(v) == v # Zero32

\* mutant: the return address read one word too high
FrameRecord_WrongWord(m, v) ==
    LET eip == m[Add32(v, Int32(8))]
        info == debuginfo_eip(eip)
    IN  [msg |-> "frame", ebp |-> v, eip |-> eip,
         args |-> [k \in 1..5 |-> m[Add32(v, Int32(4 + 4 * k))]],
         eip_file |-> info.eip_file, eip_line |-> info.eip_line,
         eip_fn_name |-> info.eip_fn_name,
         eip_fn_namelen |-> info.eip_fn_namelen,
         off |-> Sub32(eip, info.eip_fn_addr)]

\* monitor.c:72-84: the two lines printed for the frame at v
FrameRecord(m, v) ==
    LET eip == m[Add32(v, Int32(4))]
        info == debuginfo_eip(eip)
    IN  [msg |-> "frame", ebp |-> v, eip |-> eip,
         args |-> [k \in 1..5 |-> m[Add32(v, Int32(4 + 4 * k))]],
         eip_file |-> info.eip_file, eip_line |-> info.eip_line,
         eip_fn_name |-> info.eip_fn_name,
         eip_fn_namelen |-> info.eip_fn_namelen,
         off |-> Sub32(eip, info.eip_fn_addr)]

\* monitor.c:85
SavedEbp(m, v) == m[v]

\* monitor.c:70-86, one turn of the loop
BacktraceStep ==
    /\ pc = "backtrace"
    /\ WalkOn(val_ebp)
    /\ Len(out) < OutCap
    /\ out' = Append(out, FrameRecord(mem, val_ebp))
    /\ val_ebp' = SavedEbp(mem, val_ebp)
    /\ UNCHANGED <<pc, line, buf, argc, argv, calls, ret, low, high, env, parse>>

\* monitor.c:70 and 87, the loop left
BacktraceReturn ==
    /\ pc = "backtrace"
    /\ ~WalkOn(val_ebp)
    /\ ret' = 0
    /\ pc' = "returned"
    /\ UNCHANGED <<line, buf, argc, argv, calls, out, val_ebp, low, high, env, parse>>

\* monitor.c:132-142 and 149: argv[1], argv[2] of C are argv[2], argv[3] here
MonShowmappings ==
    /\ pc = "mon_showmappings"
    /\ IF argc = 2
       THEN \E a \in ParsedAddr(argv[2]) :
               /\ out' = out \o showmappings(pgdir, a)
               /\ ret' = 0
               /\ pc' = "returned"
               /\ UNCHANGED <<low, high>>
       ELSE IF argc = 3
       THEN \E a \in ParsedAddr(argv[2]), b \in ParsedAddr(argv[3]) :
               /\ low' = a
               /\ high' = b
               /\ pc' = "range"
               /\ UNCHANGED <<out, ret>>
       ELSE /\ ret' = 0
            /\ pc' = "returned"
            /\ UNCHANGED <<out, low, high>>
    /\ UNCHANGED <<line, buf, argc, argv, calls, val_ebp,
                   env, parse>>

\* monitor.c:143, the loop test
InRange(l, h) == Leq32(l, h)

\* monitor.c:146
NextLow(l) == Add32(l, Int32(PGSIZE))

\* monitor.c:143-147, one turn of the loop
RangeStep ==
    /\ pc = "range"
    /\ InRange(low, high)
    /\ Len(out) < OutCap
    /\ out' = out \o showmappings(pgdir, low)
    /\ low' = NextLow(low)
    /\ UNCHANGED <<pc, line, buf, argc, argv, calls, ret, val_ebp, high,
                   env, parse>>

\* monitor.c:143 and 149, the loop left
RangeReturn ==
    /\ pc = "range"
    /\ ~InRange(low, high)
    /\ ret' = 0
    /\ pc' = "returned"
    /\ UNCHANGED <<line, buf, argc, argv, calls, out, val_ebp, low, high, env, parse>>

\* monitor.c:101-115 as a call of its own
Hexaddr2decaddr ==
    /\ pc = "hexaddr2decaddr"
    /\ \E w \in ShiftOutcomes : result' = hexaddr2decaddr(hexaddr, w)
    /\ pc' = "parsed"
    /\ UNCHANGED <<line, buf, argc, argv, calls, out, ret, val_ebp, low, high,
                   env, hexaddr, number>>

(***************************************************************************)
(* Sample inputs                                                           *)
(***************************************************************************)
\* the k-th hexadecimal digit of the word n, digit 0 the least significant
Nibble(n, k) ==
    IF k < 3 THEN (n.lo \div (16 ^ k)) % 16 ELSE (n.hi \div (16 ^ (k - 3))) % 16

\* the character printed for the digit d
HexChar(d, upper) ==
    IF d < 10 THEN 48 + d ELSE IF upper THEN 55 + d ELSE 87 + d

\* n printed with exactly width hexadecimal digits, the most significant first
HexDigits(n, width, upper) ==
    [i \in 1..width |-> HexChar(Nibble(n, width - i), upper)]

\* the least number of digits (at least one) that print n
MinWidth(n) ==
    CHOOSE w \in 1..8 :
        /\ \A k \in w..7 : Nibble(n, k) = 0
        /\ w = 1 \/ Nibble(n, w - 1) # 0

Prefixes == {<<48, 120>>, <<48, 88>>}           \* "0x", "0X"

\* n the way a user types it: "0x" and the lowercase digits
Hex(n) == <<48, 120>> \o HexDigits(n, MinWidth(n), FALSE)

\* the word with the hexadecimal digits t[8] ... t[1]
FromNibbles(t) ==
    W32(t[8] * 65536 + t[7] * 4096 + t[6] * 256 + t[5] * 16 + t[4],
        t[3] * 256 + t[2] * 16 + t[1])

NibbleSamples == 0..15
NibbleBases == {[k \in 1..8 |-> 0], [k \in 1..8 |-> 15]}

\* words for the round trip: any two digits set freely in 0x00000000 and in
\* 0xFFFFFFFF
SampleWords ==
    {FromNibbles([[base EXCEPT ![i] = a] EXCEPT ![j] = b]) :
        base \in NibbleBases, i \in 1..8, j \in 1..8,
        a \in NibbleSamples, b \in NibbleSamples}

\* the characters around the three digit ranges of char2int
DigitEdges == {47, 48, 57, 58, 64, 65, 70, 71, 96, 97, 102, 103}

Repeat(c, n) == [k \in 1..n |-> c]

\* address strings: any characters of DigitEdges, padded on one side with
\* '1' or 'z' up to MaxRemainder characters after the prefix
FreeStrings ==
    {p \o l \o core \o r :
        p \in Prefixes \cup {<<102, 102>>},
        core \in UNION {[1..n -> DigitEdges] : n \in 0..MaxCore},
        l \in {Repeat(c, n) : c \in {49, 122}, n \in 0..(MaxRemainder - MaxCore)},
        r \in {<<>>}}
    \cup
    {p \o core \o r :
        p \in Prefixes,
        core \in UNION {[1..n -> DigitEdges] : n \in 0..MaxCore},
        r \in {Repeat(c, n) : c \in {49, 122}, n \in 1..(MaxRemainder - MaxCore)}}

\* addresses for the translator: the first and the last pages of the
\* address space, at the start, just inside and at the end of a page
SamplePages == (0..MaxSpan) \cup ((NPAGES - 1 - MaxSpan)..(NPAGES - 1))
SampleAddrs == {W32(h, l) : h \in SamplePages, l \in {0, 1, PGSIZE - 1}}

\* page tables: any of three pages mapped, the entries with flag bits set
MappedCandidates == {0, 1, NPAGES - 1}
PteSamples == {W32(5, 7), W32(NPAGES - 1, PGSIZE - 1)}
PgdirSamples == UNION {[S -> PteSamples] : S \in SUBSET MappedCandidates}

\* stacks: MaxFrames frame slots of eight words in one page
StackPage == 15 * 65536 + 271                   \* 0xF010F
TextPage == 15 * 65536 + 256                    \* 0xF0100
Slot(i) == W32(StackPage, 32 * i)
Slots == {Slot(i) : i \in 1..MaxFrames}
StackWords == {W32(StackPage, 4 * j) : j \in 0..(8 * (MaxFrames + 1) - 1)}

\* the stack memory whose saved frame pointers are link; every other word
\* holds a value of its own
StackImage(link) ==
    [a \in StackWords |->
        IF a \in Slots THEN link[a]
        ELSE IF a.lo % 32 = 4 THEN W32(TextPage, a.lo)
        ELSE Int32(3 * a.lo + 1)]

\* the stack the monitor is entered on: every slot a frame, the last the
\* outermost
BootLink ==
    [a \in Slots |-> IF a.lo \div 32 < MaxFrames THEN Slot(a.lo \div 32 + 1)
                     ELSE Zero32]

\* lines
LineAlphabet == {9, 10, 13, 32, 97, 104}
ShortLines == UNION {[1..n -> LineAlphabet] : n \in 0..MaxLineLen}

Names == {commands[i].name : i \in 1..Len(commands)}
NearNames ==
    {SubSeq(n, 1, Len(n) - 1) : n \in Names}
    \cup {n \o <<112>> : n \in Names}
    \cup {[n EXCEPT ![1] = @ - 32] : n \in Names}

CommandLines ==
    {l \o w \o r :
        l \in {<<>>, <<32>>, <<9, 32>>},
        w \in Names \cup NearNames,
        r \in {<<>>, <<32>>, <<32, 97>>, <<13, 10>>}}

ReplAddrs == {Zero32, W32(1, 1), W32(NPAGES - 1, 0)}
ShowLines ==
    {Str_showmappings \o <<32>> \o Hex(a) : a \in ReplAddrs}
    \cup {Str_showmappings \o <<32>> \o Hex(a) \o <<9>> \o Hex(b) :
            a \in ReplAddrs, b \in ReplAddrs}
    \cup {Str_showmappings \o <<32, 53>>,
          Str_showmappings \o <<32, 48, 120, 32, 48, 120, 32, 48, 120>>}

\* n tokens, the first one first, each later one led by sep
RECURSIVE TokenLine(_, _, _)
TokenLine(n, first, sep) ==
    IF n = 0 THEN <<>>
    ELSE IF n = 1 THEN first
    ELSE TokenLine(n - 1, first, sep)
         \o sep \o (IF n % 2 = 0 THEN <<98>> ELSE <<99, 100>>)

TokenLines ==
    {l \o TokenLine(n, first, sep) \o r :
        n \in 0..MaxTokens,
        first \in {Str_help, <<97>>},
        sep \in {<<32>>, <<9, 32, 32>>},
        l \in {<<>>, <<32>>},
        r \in {<<>>, <<10>>}}

Lines == ShortLines \cup CommandLines \cup ShowLines \cup TokenLines

(***************************************************************************)
(* The monitor: monitor.c:197-214                                          *)
(***************************************************************************)
\* monitor.c:209-210: readline prompts and gives a line, or NULL
ReadLine ==
    /\ pc = "readline"
    /\ \E b \in {l \o <<0>> : l \in Lines} \cup {NoBuf} :
          /\ buf' = b
          /\ line' = IF b = NoBuf THEN <<>> ELSE SubSeq(b, 1, Len(b) - 1)
          /\ pc' = IF b = NoBuf THEN "readline" ELSE "runcmd"
    /\ out' = <<>>
    /\ UNCHANGED <<argc, argv, calls, ret, val_ebp, low, high, env, parse>>

\* nothing read, parsed or printed yet
Idle ==
    /\ line = <<>> /\ buf = NoBuf /\ argc = 0 /\ argv = <<>> /\ calls = <<>>
    /\ out = <<>> /\ ret = 0
    /\ val_ebp = Zero32 /\ low = Zero32 /\ high = Zero32

NoParse == hexaddr = <<>> /\ result = Zero32 /\ number = {}

Init ==
    /\ pc = "monitor"
    /\ Idle
    /\ NoParse
    /\ tf \in {NULL, "tf"}
    /\ ebp = Slot(1)
    /\ mem = StackImage(BootLink)
    /\ pgdir = [h \in {1} |-> W32(5, 7)]

Next ==
    \/ MonitorStart
    \/ ReadLine
    \/ RunCmd
    \/ MonitorCheck
    \/ MonHelp
    \/ MonKerninfo
    \/ MonBacktrace
    \/ BacktraceStep
    \/ BacktraceReturn
    \/ MonShowmappings
    \/ RangeStep
    \/ RangeReturn

Spec == Init /\ [][Next]_vars

(***************************************************************************)
(* Properties of the tokenizer, the dispatcher and the loop, under Spec    *)
(***************************************************************************)
\* the whitespace characters: tab, newline, carriage return, space
IsSpace(c) == c \in {9, 10, 13, 32}

\* where the maximal runs of non-whitespace characters of l start
TokenStarts(l) ==
    {i \in 1..Len(l) : ~IsSpace(l[i]) /\ (i = 1 \/ IsSpace(l[i - 1]))}

\* where the run that starts at s ends
TokenEnd(l, s) ==
    CHOOSE e \in s..Len(l) :
        /\ \A j \in s..e : ~IsSpace(l[j])
        /\ e = Len(l) \/ IsSpace(l[e + 1])

\* the maximal runs of non-whitespace characters of l, in order
RefTokens(l) ==
    [k \in 1..Cardinality(TokenStarts(l)) |->
        LET s == CHOOSE x \in TokenStarts(l) :
                     Cardinality({y \in TokenStarts(l) : y < x}) = k - 1
        IN  SubSeq(l, s, TokenEnd(l, s))]

\* runcmd has parsed the current line
Parsed == pc \notin {"monitor", "readline", "runcmd", "exit"}

\* C2: for a line of at most 15 tokens, argc and argv[0..argc-1] are the
\* maximal runs of non-whitespace characters of the line, in order, however
\* many separators lead, separate or follow them; an empty or all-whitespace
\* line gives argc = 0 and no handler is invoked.
C2_TokenizerSplits ==
    (Parsed /\ Len(RefTokens(line)) <= 15) =>
        /\ argc = Len(RefTokens(line))
        /\ argv = RefTokens(line)
        /\ (RefTokens(line) = <<>> =>
                argc = 0 /\ calls = <<>> /\ pc = "returned")

\* C2 witness: a parsed line of several tokens with leading and trailing
\* whitespace and a run of separators between two tokens
C2_Witness ==
    /\ pc = "returned"
    /\ argc >= 3
    /\ IsSpace(line[1]) /\ IsSpace(line[Len(line)])
    /\ \E j \in 2..(Len(line) - 2) :
          /\ IsSpace(line[j]) /\ IsSpace(line[j + 1])
          /\ \E i \in 1..(j - 1) : ~IsSpace(line[i])
          /\ \E k \in (j + 2)..Len(line) : ~IsSpace(line[k])

TooManyReport == [msg |-> "Too many arguments", max |-> MAXARGS]

\* C3: a line of 16 or more tokens gets the "Too many arguments" report
\* exactly once, no handler is invoked and runcmd returns 0; a line of 15 or
\* fewer tokens is not rejected this way.
C3_TooManyArguments ==
    Parsed =>
        IF Len(RefTokens(line)) >= 16
        THEN out = <<TooManyReport>> /\ calls = <<>> /\ ret = 0 /\ pc = "returned"
        ELSE \A k \in 1..Len(out) : out[k].msg # "Too many arguments"

\* C3 witness: a rejected line of exactly 16 tokens whose first is "help"
C3_Witness ==
    /\ pc = "returned"
    /\ Len(RefTokens(line)) = 16
    /\ RefTokens(line)[1] = Str_help
    /\ out = <<TooManyReport>>

\* the states in which the handler f runs
HandlerStates(f) ==
    IF f = "mon_backtrace" THEN {"mon_backtrace", "backtrace"}
    ELSE IF f = "mon_showmappings" THEN {"mon_showmappings", "range"}
    ELSE {f}

\* C8: with a non-empty token sequence, the handler of the first command
\* whose name is exactly argv[0] is invoked once, with argc, argv and the
\* trapframe, and its return value is what runcmd returns; when no name is
\* argv[0], nothing is invoked, "Unknown command" names argv[0] and 0 is
\* returned; with argc = 0 nothing is invoked or reported and 0 is returned.
C8_Dispatch ==
    (Parsed /\ Len(RefTokens(line)) <= 15) =>
        LET hits == {i \in 1..Len(commands) : argc > 0 /\ commands[i].name = argv[1]}
        IN  IF argc = 0
            THEN calls = <<>> /\ out = <<>> /\ ret = 0 /\ pc = "returned"
            ELSE IF hits = {}
            THEN /\ calls = <<>>
                 /\ out = <<[msg |-> "Unknown command", name |-> argv[1]]>>
                 /\ ret = 0
                 /\ pc = "returned"
            ELSE LET i == CHOOSE x \in hits : \A y \in hits : x <= y
                 IN  /\ calls = <<[func |-> commands[i].func, argc |-> argc,
                                    argv |-> argv, tf |-> tf]>>
                     /\ pc \in HandlerStates(commands[i].func) \cup {"returned"}
                     /\ pc = "returned" => ret = 0
                     /\ \A k \in 1..Len(out) : out[k].msg # "Unknown command"

\* C8 witness: help was given an extra argument, was invoked and has returned
C8_Witness ==
    /\ pc = "returned"
    /\ argc = 2
    /\ calls # <<>>
    /\ calls[1].func = "mon_help"
    /\ calls[1].argv = argv

\* C9: the loop is left only when runcmd returned a negative value, a null
\* line is skipped and the loop prompts again, a value of zero or more
\* continues the loop; every path of runcmd returns 0, so monitor never
\* returns.
C9_MonitorNeverReturns ==
    /\ [](pc # "exit")
    /\ [](pc = "returned" => ret = 0)
    /\ [][(pc = "readline" /\ buf' = NoBuf) => pc' = "readline"]_vars
    /\ [][pc = "returned" => pc' = (IF ret < 0 THEN "exit" ELSE "readline")]_vars

\* C9 witness: a dispatched command has returned 0 to the loop
C9_Witness ==
    /\ pc = "returned"
    /\ calls # <<>>
    /\ ret = 0

(***************************************************************************)
(* mon_showmappings called on its own                                      *)
(***************************************************************************)
ShowArgvs ==
    {<<Str_showmappings>>,
     <<Str_showmappings, Hex(Zero32), Hex(Zero32), Hex(Zero32)>>}
    \cup {<<Str_showmappings, Hex(a)>> : a \in SampleAddrs}
    \cup {<<Str_showmappings, Hex(a), Hex(b)>> : a \in SampleAddrs, b \in SampleAddrs}

InitShow ==
    /\ pc = "mon_showmappings"
    /\ line = <<>> /\ buf = NoBuf
    /\ argv \in ShowArgvs
    /\ argc = Len(argv)
    /\ calls = <<[func |-> "mon_showmappings", argc |-> argc, argv |-> argv,
                  tf |-> NULL]>>
    /\ out = <<>> /\ ret = 0
    /\ val_ebp = Zero32 /\ low = Zero32 /\ high = Zero32
    /\ NoParse
    /\ tf = NULL
    /\ ebp = Slot(1)
    /\ mem = StackImage(BootLink)
    /\ pgdir \in PgdirSamples

NextShow ==
    \/ MonShowmappings
    \/ RangeStep
    \/ RangeReturn

SpecShow == InitShow /\ [][NextShow]_vars

\* the address the user typed as tok
TypedAddr(tok) == CHOOSE a \in SampleAddrs : Hex(a) = tok

\* the report for the address a against the page table pd: the entry value
\* less its twelve flag bits, or no mapping
Translation(pd, a) ==
    IF a.hi \in DOMAIN pd
    THEN [msg |-> "va_pa", va |-> a, pa |-> Sub32(pd[a.hi], W32(0, pd[a.hi].lo))]
    ELSE [msg |-> "No physical page mapping", va |-> a]

\* C1: in range mode no translation is performed when low > high, and
\* otherwise exactly floor((high - low) / PGSIZE) + 1 of them, at low,
\* low + PGSIZE, ... from the unrounded low, after which 0 is returned; for
\* all 32-bit low and high, also high within a page of 0xFFFFFFFF.
C1_RangeTranslations ==
    (pc \in {"range", "returned"} /\ argc = 3) =>
        LET lo0 == TypedAddr(argv[2])
            hi0 == TypedAddr(argv[3])
            n == IF Leq32(lo0, hi0) THEN Sub32(hi0, lo0).hi + 1 ELSE 0
        IN  /\ Len(out) <= n
            /\ \A i \in 1..Len(out) : out[i].va = W32(lo0.hi + i - 1, lo0.lo)
            /\ pc = "returned" => (Len(out) = n /\ ret = 0)

\* The same below the last page: when high < 0xFFFFF000 the addition never
\* wraps before low exceeds high, and the count and the addresses are these.
C1_BelowLastPage ==
    (pc \in {"range", "returned"} /\ argc = 3
        /\ TypedAddr(argv[3]).hi < NPAGES - 1) =>
        LET lo0 == TypedAddr(argv[2])
            hi0 == TypedAddr(argv[3])
            n == IF Leq32(lo0, hi0) THEN Sub32(hi0, lo0).hi + 1 ELSE 0
        IN  /\ Len(out) <= n
            /\ \A i \in 1..Len(out) : out[i].va = W32(lo0.hi + i - 1, lo0.lo)
            /\ pc = "returned" => (Len(out) = n /\ ret = 0)

\* C7: a single-address translation reports exactly one line: the virtual
\* address with the stored entry less its 12 flag bits when the lookup finds
\* an entry, the "No physical page mapping" line naming the address when it
\* does not; the page table is left unchanged and 0 is returned.
C7_SingleTranslation ==
    /\ [](\A k \in 1..Len(out) : out[k] = Translation(pgdir, out[k].va))
    /\ []((pc = "returned" /\ argc = 2) =>
            (out = <<Translation(pgdir, TypedAddr(argv[2]))>> /\ ret = 0))
    /\ [][pgdir' = pgdir]_vars

\* C7 witness: a mapped address inside its page was translated, the entry
\* carrying flag bits
C7_Witness ==
    /\ pc = "returned"
    /\ argc = 2
    /\ Len(out) = 1
    /\ out[1].msg = "va_pa"
    /\ out[1].va.lo # 0
    /\ pgdir[out[1].va.hi].lo # 0

(***************************************************************************)
(* mon_backtrace called on its own                                         *)
(***************************************************************************)
InitBt ==
    /\ pc = "mon_backtrace"
    /\ line = <<>> /\ buf = NoBuf
    /\ argv = <<Str_backtrace>>
    /\ argc = 1
    /\ calls = <<[func |-> "mon_backtrace", argc |-> argc, argv |-> argv,
                  tf |-> NULL]>>
    /\ out = <<>> /\ ret = 0
    /\ val_ebp = Zero32 /\ low = Zero32 /\ high = Zero32
    /\ NoParse
    /\ tf = NULL
    /\ ebp \in Slots \cup {Zero32}
    /\ mem \in {StackImage(link) : link \in [Slots -> Slots \cup {Zero32}]}
    /\ pgdir = [h \in {1} |-> W32(5, 7)]

NextBt ==
    \/ MonBacktrace
    \/ BacktraceStep
    \/ BacktraceReturn

\* the processor keeps executing the handler
SpecBt == InitBt /\ [][NextBt]_vars /\ WF_vars(NextBt)

\* the sequences of distinct frame slots
FrameChains ==
    {fs \in UNION {[1..n -> Slots] : n \in 0..MaxFrames} :
        \A i \in 1..Len(fs) : \A j \in 1..Len(fs) : fs[i] = fs[j] => i = j}

\* the stack holds exactly the frames fs, innermost first: the register points
\* at the first, each saved frame pointer at the next, the last one is zero
HoldsStack(fs) ==
    /\ ebp = (IF fs = <<>> THEN Zero32 ELSE fs[1])
    /\ \A i \in 1..Len(fs) :
          mem[fs[i]] = (IF i < Len(fs) THEN fs[i + 1] ELSE Zero32)

\* C6: on a stack of N >= 0 frames chained through their saved frame pointers
\* and ended by zero, mon_backtrace emits exactly N frame records, innermost
\* first, the i-th with the i-th frame's frame pointer and the return address
\* in the word above it, and returns 0.
C6_BacktraceRecords ==
    \A fs \in FrameChains :
        (HoldsStack(fs) /\ pc \in {"backtrace", "returned"}) =>
            /\ Len(out) <= 1 + Len(fs)
            /\ out[1] = [msg |-> "Stack backtrace:"]
            /\ \A i \in 1..(Len(out) - 1) :
                  /\ out[i + 1].msg = "frame"
                  /\ out[i + 1].ebp = fs[i]
                  /\ out[i + 1].eip = mem[W32(fs[i].hi, fs[i].lo + 4)]
            /\ pc = "returned" => (Len(out) = 1 + Len(fs) /\ ret = 0)

\* C6 witness: a stack of MaxFrames frames, not laid out in slot order, was
\* unwound to its end
C6_Witness ==
    /\ pc = "returned"
    /\ Len(out) = 1 + MaxFrames
    /\ ebp # Slot(1)
    /\ \E fs \in FrameChains : HoldsStack(fs) /\ Len(fs) = MaxFrames

\* the chain of saved frame pointers from the register reaches zero
ReachesZero == \E fs \in FrameChains : HoldsStack(fs)

\* C10: the walk stops if and only if the chain of saved frame pointers from
\* the frame-pointer register reaches zero: it ends on every zero-terminated
\* chain, and on a chain that cycles it never returns, the loop test holding
\* at a frame of the chain every time it is made.
C10_BacktraceTermination ==
    /\ ReachesZero ~> (pc = "returned")
    /\ [](pc = "returned" => ReachesZero)
    /\ []((~ReachesZero /\ pc = "backtrace") =>
            (WalkOn(val_ebp) /\ val_ebp \in Slots))

\* C10 witness: on a chain that cycles the walk has emitted more records than
\* there are frames
C10_Witness ==
    /\ ~ReachesZero
    /\ pc = "backtrace"
    /\ Len(out) > 1 + MaxFrames

(***************************************************************************)
(* hexaddr2decaddr called on its own                                       *)
(***************************************************************************)
InitParse ==
    /\ pc = "hexaddr2decaddr"
    /\ Idle
    /\ result = Zero32
    /\ \/ \E n \in SampleWords, p \in Prefixes, u \in BOOLEAN :
             \E w \in MinWidth(n)..8 :
                /\ number = {n}
                /\ hexaddr = p \o HexDigits(n, w, u)
       \/ /\ number = {}
          /\ hexaddr \in FreeStrings
    /\ tf = NULL
    /\ ebp = Slot(1)
    /\ mem = StackImage(BootLink)
    /\ pgdir = [h \in {1} |-> W32(5, 7)]

NextParse == Hexaddr2decaddr

SpecParse == InitParse /\ [][NextParse]_vars

\* C4: an integer of the 32-bit address width, printed as 1 to 8 lowercase
\* or uppercase hexadecimal digits behind a two-character prefix and parsed
\* by hexaddr2decaddr, comes back as the same 32-bit value, top bit set or not.
C4_RoundTrip ==
    (pc = "parsed" /\ number # {}) => result \in number

\* C4 witness: a value with the top bit set, printed with 8 uppercase digits,
\* came back
C4_Witness ==
    /\ pc = "parsed"
    /\ number # {}
    /\ result.hi >= NPAGES \div 2
    /\ Len(hexaddr) = 10
    /\ \E i \in 3..10 : hexaddr[i] \in 65..70
    /\ result \in number

\* the value of a hexadecimal digit character, 0 for any other character
DigitValue(c) ==
    IF c \in 48..57 THEN c - 48
    ELSE IF c \in 65..70 THEN c - 65 + 10
    ELSE IF c \in 97..102 THEN c - 97 + 10
    ELSE 0

\* the sum of DigitValue * 16^(distance from the end) over the characters
\* after the first two, in 32 bits: digit k of it is the value of the
\* character at distance k from the end
PositionalValue(s) ==
    FromNibbles([k \in 1..8 |->
        IF k <= Len(s) - 2 THEN DigitValue(s[Len(s) + 1 - k]) ELSE 0])

\* C5: for every string of at least two characters hexaddr2decaddr skips the
\* first two, every other character that is no hexadecimal digit counts 0 at
\* its position, the digits keep their weight 16^(distance from the end), and
\* an empty remainder gives 0.
C5_SilentZero ==
    pc = "parsed" => result = PositionalValue(hexaddr)

\* The same within the address width: with at most 8 characters after the
\* prefix no shift is out of range and the value is the positional one.
C5_WithinWidth ==
    (pc = "parsed" /\ Len(hexaddr) <= 10) => result = PositionalValue(hexaddr)

====
